---- MODULE Spec2Model ----
(***************************************************************************)
(* Complete numbers (src/src/complete_numbers.py): a value type with four  *)
(* float fields (real, imag, u_real, u_imag) whose multiplication by zero  *)
(* moves real/imag into the "absorbed" fields, and the scalar view         *)
(* CompleteComponent returned by the .real and .imag properties.           *)
(*                                                                         *)
(* A Python float is modelled as a sign and a magnitude, so that IEEE-754  *)
(* negative zero is a value of its own: -0.0 == 0 is true, but str(-0.0)   *)
(* is "-0.0".  Magnitudes are integral; a division is taken only where its *)
(* quotient is integral.  A Python str is a sequence of one-character      *)
(* strings.                                                                *)
(***************************************************************************)
EXTENDS Integers, Sequences, FiniteSets, TLC

VARIABLES self, op, view, arg, result

vars == <<self, op, view, arg, result>>

\* Bounds of the model.
MaxVal == 4
MaxAbsorbed == 2
MaxScalar == 2
MaxMag == 8

Abs(n) == IF n < 0 THEN -n ELSE n

(***************************************************************************)
(* Python floats and strings, as the source uses them.                     *)
(***************************************************************************)

\* float(n) for a Python int n; float(0) is +0.0.
float(n) == [neg |-> n < 0, mag |-> Abs(n)]

\* f == 0 for a float f (true of -0.0 too).
IsZero(f) == f.mag = 0

\* f * s for a float f and an int s: the sign is the exclusive or of the signs.
float_mul(f, s) == [neg |-> f.neg # (s < 0), mag |-> f.mag * Abs(s)]

\* f / s for a float f and a nonzero int s (taken where the quotient is integral).
float_truediv(f, s) == [neg |-> f.neg # (s < 0), mag |-> f.mag \div Abs(s)]

Exact(f, s) == s # 0 /\ f.mag % Abs(s) = 0

DigitChars == <<"0", "1", "2", "3", "4", "5", "6", "7", "8", "9">>

RECURSIVE int_str(_)
int_str(n) ==
    IF n < 10 THEN <<DigitChars[n + 1]>>
    ELSE int_str(n \div 10) \o <<DigitChars[(n % 10) + 1]>>

\* str(f) for a float f of integral value: "3.0", "-4.0", "0.0", "-0.0".
float_str(f) ==
    (IF f.neg THEN <<"-">> ELSE <<>>) \o int_str(f.mag) \o <<".", "0">>

\* sep.join(parts)
RECURSIVE join(_, _)
join(sep, parts) ==
    IF parts = <<>> THEN <<>>
    ELSE IF Len(parts) = 1 THEN parts[1]
    ELSE parts[1] \o sep \o join(sep, Tail(parts))

\* s.replace(old, new): non-overlapping occurrences, left to right.
RECURSIVE replace(_, _, _)
replace(s, old, new) ==
    IF Len(s) < Len(old) THEN s
    ELSE IF SubSeq(s, 1, Len(old)) = old
         THEN new \o replace(SubSeq(s, Len(old) + 1, Len(s)), old, new)
         ELSE <<Head(s)>> \o replace(Tail(s), old, new)

(***************************************************************************)
(* Operands and outcomes.                                                  *)
(***************************************************************************)

\* A plain int operand, and an operand that is neither int nor float.
int(n) == [type |-> "int", value |-> n]
NonNumber == [type |-> "str", value |-> 0]

isinstance_number(other) == other.type = "int"

Scalars == {int(n) : n \in -MaxScalar..MaxScalar}
Operands == Scalars \cup {NonNumber}

None == [kind |-> "None"]
NotImplemented == [kind |-> "NotImplemented"]
ZeroDivisionError == [kind |-> "ZeroDivisionError"]
AttributeError == [kind |-> "AttributeError"]
Returned(kind, value) == [kind |-> kind, value |-> value]

(***************************************************************************)
(* class CompleteComponent                                                 *)
(***************************************************************************)

CompleteComponent__init__(value, component_type) ==
    [value |-> value, type |-> component_type]

CompleteComponent__mul__MutantSuffix(this, other) ==
    IF other.value = 0
    THEN Returned("str", float_str(this.value) \o <<"u">>)
    ELSE Returned("float", float_mul(this.value, other.value))

CompleteComponent__mul__(this, other) ==
    IF other.value = 0
    THEN IF this.type = "real"
         THEN Returned("str", float_str(this.value) \o <<"u">>)
         ELSE Returned("str", float_str(this.value) \o <<"u", "j">>)
    ELSE Returned("float", float_mul(this.value, other.value))

CompleteComponent__truediv__MutantRecover(this, other) ==
    IF other.value = 0 /\ ~IsZero(this.value)
    THEN ZeroDivisionError
    ELSE Returned("float", float_truediv(this.value, IF other.value = 0 THEN 1 ELSE other.value))

CompleteComponent__truediv__(this, other) ==
    IF other.value = 0
    THEN ZeroDivisionError
    ELSE Returned("float", float_truediv(this.value, other.value))

CompleteComponent__rmul__(this, other) == CompleteComponent__mul__(this, other)

\* The class body binds __rtruediv__ twice (lines 46-49, then 54-57); the
\* later binding is the method of the class.
CompleteComponent__rtruediv__(this, other) == NotImplemented

(***************************************************************************)
(* class CompleteNumber                                                    *)
(***************************************************************************)

\* The four arguments are floats here: float() is applied where the
\* argument is an int (float of a float is that float).
CompleteNumber__init__(real, imag, u_real, u_imag) ==
    [real |-> real, imag |-> imag, u_real |-> u_real, u_imag |-> u_imag]

\* CompleteNumber(real, imag): u_real and u_imag take their default, 0.
CompleteNumber(real, imag) ==
    CompleteNumber__init__(real, imag, float(0), float(0))

real(this) == CompleteComponent__init__(this.real, "real")

imag(this) == CompleteComponent__init__(this.imag, "imag")

CompleteNumber__mul__MutantAccumulate(this, other) ==
    IF isinstance_number(other)
    THEN IF other.value = 0
         THEN Returned("CompleteNumber",
                  CompleteNumber__init__(float(0), float(0),
                      IF IsZero(this.u_real) THEN this.real ELSE this.u_real,
                      IF IsZero(this.u_imag) THEN this.imag ELSE this.u_imag))
         ELSE Returned("CompleteNumber",
                  CompleteNumber(float_mul(this.real, other.value),
                                 float_mul(this.imag, other.value)))
    ELSE NotImplemented

CompleteNumber__mul__MutantNoVanish(this, other) ==
    IF isinstance_number(other)
    THEN IF other.value = 0
         THEN Returned("CompleteNumber",
                  CompleteNumber__init__(this.real, this.imag, this.real, this.imag))
         ELSE Returned("CompleteNumber",
                  CompleteNumber(float_mul(this.real, other.value),
                                 float_mul(this.imag, other.value)))
    ELSE NotImplemented

CompleteNumber__mul__(this, other) ==
    IF isinstance_number(other)
    THEN IF other.value = 0
         THEN Returned("CompleteNumber",
                  CompleteNumber__init__(float(0), float(0), this.real, this.imag))
         ELSE Returned("CompleteNumber",
                  CompleteNumber(float_mul(this.real, other.value),
                                 float_mul(this.imag, other.value)))
    ELSE NotImplemented

CompleteNumber__truediv__MutantAnd(this, other) ==
    IF isinstance_number(other)
    THEN IF other.value = 0
         THEN IF ~IsZero(this.real) /\ ~IsZero(this.imag)
              THEN ZeroDivisionError
              ELSE Returned("CompleteNumber",
                       CompleteNumber(this.u_real, this.u_imag))
         ELSE Returned("CompleteNumber",
                  CompleteNumber__init__(float_truediv(this.real, other.value),
                                         float_truediv(this.imag, other.value),
                                         float_truediv(this.u_real, other.value),
                                         float_truediv(this.u_imag, other.value)))
    ELSE NotImplemented

CompleteNumber__truediv__MutantNoReset(this, other) ==
    IF isinstance_number(other)
    THEN IF other.value = 0
         THEN IF ~IsZero(this.real) \/ ~IsZero(this.imag)
              THEN ZeroDivisionError
              ELSE Returned("CompleteNumber",
                       CompleteNumber__init__(this.u_real, this.u_imag,
                                              this.u_real, this.u_imag))
         ELSE Returned("CompleteNumber",
                  CompleteNumber__init__(float_truediv(this.real, other.value),
                                         float_truediv(this.imag, other.value),
                                         float_truediv(this.u_real, other.value),
                                         float_truediv(this.u_imag, other.value)))
    ELSE NotImplemented

CompleteNumber__truediv__(this, other) ==
    IF isinstance_number(other)
    THEN IF other.value = 0
         THEN IF ~IsZero(this.real) \/ ~IsZero(this.imag)
              THEN ZeroDivisionError
              ELSE Returned("CompleteNumber",
                       CompleteNumber(this.u_real, this.u_imag))
         ELSE Returned("CompleteNumber",
                  CompleteNumber__init__(float_truediv(this.real, other.value),
                                         float_truediv(this.imag, other.value),
                                         float_truediv(this.u_real, other.value),
                                         float_truediv(this.u_imag, other.value)))
    ELSE NotImplemented

\* self._value is read first, and a CompleteNumber has no such attribute.
CompleteNumber__rtruediv__(this, other) == AttributeError

CompleteNumber__rmul__(this, other) == CompleteNumber__mul__(this, other)

CompleteNumber__repr__MutantNoForce(this) ==
    LET p1 == IF ~IsZero(this.real) THEN <<float_str(this.real)>> ELSE <<>>
        p2 == IF ~IsZero(this.imag) THEN <<float_str(this.imag) \o <<"j">>>> ELSE <<>>
        p3 == IF ~IsZero(this.u_real) THEN <<float_str(this.u_real) \o <<"u">>>> ELSE <<>>
        p4 == IF ~IsZero(this.u_imag) THEN <<float_str(this.u_imag) \o <<"u", "j">>>> ELSE <<>>
        parts == p1 \o p2 \o p3 \o p4
    IN  Returned("str", replace(join(<<" ", "+", " ">>, parts),
                                <<" ", "+", " ", "-">>, <<" ", "-", " ">>))

CompleteNumber__repr__(this) ==
    LET p1 == IF ~IsZero(this.real)
                 \/ (IsZero(this.imag) /\ IsZero(this.u_real) /\ IsZero(this.u_imag))
              THEN <<float_str(this.real)>> ELSE <<>>
        p2 == IF ~IsZero(this.imag) THEN <<float_str(this.imag) \o <<"j">>>> ELSE <<>>
        p3 == IF ~IsZero(this.u_real) THEN <<float_str(this.u_real) \o <<"u">>>> ELSE <<>>
        p4 == IF ~IsZero(this.u_imag) THEN <<float_str(this.u_imag) \o <<"u", "j">>>> ELSE <<>>
        parts == p1 \o p2 \o p3 \o p4
    IN  Returned("str", replace(join(<<" ", "+", " ">>, parts),
                                <<" ", "+", " ", "-">>, <<" ", "-", " ">>))

(***************************************************************************)
(* The state machine: `self` is the CompleteNumber at hand, `op` the last  *)
(* operation applied to it (or to its component view `view`), `arg` that   *)
(* operation's operand and `result` what it returned or raised.  Every     *)
(* operation leaves `self` as it was: instances are never mutated.  A      *)
(* result is bound (Chain) or printed and dropped (Drop) before the next   *)
(* operation is applied.                                                   *)
(***************************************************************************)

InBounds(c) ==
    /\ c.real.mag <= MaxMag
    /\ c.imag.mag <= MaxMag
    /\ c.u_real.mag <= MaxMag
    /\ c.u_imag.mag <= MaxMag

ExactFor(c, other) ==
    other.value # 0 =>
        /\ Exact(c.real, other.value)
        /\ Exact(c.imag, other.value)
        /\ Exact(c.u_real, other.value)
        /\ Exact(c.u_imag, other.value)

Applied(name, component, other, outcome) ==
    /\ result = None
    /\ outcome.kind = "CompleteNumber" => InBounds(outcome.value)
    /\ outcome.kind = "float" => outcome.value.mag <= MaxMag
    /\ op' = name
    /\ view' = component
    /\ arg' = other
    /\ result' = outcome
    /\ UNCHANGED self

\* CompleteNumber(real, imag, u_real, u_imag)
Init ==
    /\ \E r, i \in -MaxVal..MaxVal : \E ur, ui \in -MaxAbsorbed..MaxAbsorbed :
           self = CompleteNumber__init__(float(r), float(i), float(ur), float(ui))
    /\ op = "__init__"
    /\ view = "none"
    /\ arg = int(0)
    /\ result = None

\* CompleteNumber(real, imag)
InitDefault ==
    /\ \E r, i \in -MaxVal..MaxVal : self = CompleteNumber(float(r), float(i))
    /\ op = "__init__"
    /\ view = "none"
    /\ arg = int(0)
    /\ result = None

Mul ==
    \E other \in Operands :
        Applied("__mul__", "none", other, CompleteNumber__mul__(self, other))

RMul ==
    \E other \in Operands :
        Applied("__rmul__", "none", other, CompleteNumber__rmul__(self, other))

TrueDiv ==
    \E other \in Operands :
        /\ ExactFor(self, other)
        /\ Applied("__truediv__", "none", other, CompleteNumber__truediv__(self, other))

RTrueDiv ==
    \E other \in Operands :
        Applied("__rtruediv__", "none", other, CompleteNumber__rtruediv__(self, other))

Repr ==
    Applied("__repr__", "none", int(0), CompleteNumber__repr__(self))

Views == {"real", "imag"}

ViewOf(this, component) == IF component = "real" THEN real(this) ELSE imag(this)

ComponentMul ==
    \E component \in Views, other \in Scalars :
        Applied("component.__mul__", component, other,
                CompleteComponent__mul__(ViewOf(self, component), other))

ComponentRMul ==
    \E component \in Views, other \in Scalars :
        Applied("component.__rmul__", component, other,
                CompleteComponent__rmul__(ViewOf(self, component), other))

ComponentTrueDiv ==
    \E component \in Views, other \in Scalars :
        /\ other.value # 0 => Exact(ViewOf(self, component).value, other.value)
        /\ Applied("component.__truediv__", component, other,
                   CompleteComponent__truediv__(ViewOf(self, component), other))

ComponentRTrueDiv ==
    \E component \in Views, other \in Scalars :
        Applied("component.__rtruediv__", component, other,
                CompleteComponent__rtruediv__(ViewOf(self, component), other))

\* The returned CompleteNumber is bound and operated on in turn
\* (cu_absorbed = cu * 0; cu_absorbed / 0).
Chain ==
    /\ result.kind = "CompleteNumber"
    /\ self' = result.value
    /\ op' = "__init__"
    /\ view' = "none"
    /\ arg' = int(0)
    /\ result' = None

\* The result is printed and not used again.
Drop ==
    /\ result # None
    /\ op' = "__init__"
    /\ view' = "none"
    /\ arg' = int(0)
    /\ result' = None
    /\ UNCHANGED self

Next ==
    \/ Mul
    \/ RMul
    \/ TrueDiv
    \/ RTrueDiv
    \/ Repr
    \/ ComponentMul
    \/ ComponentRMul
    \/ ComponentTrueDiv
    \/ ComponentRTrueDiv
    \/ Chain
    \/ Drop

Spec == Init /\ [][Next]_vars

\* Numbers built with the default absorbed fields and then only multiplied
\* and divided.
NextDefault ==
    \/ Mul
    \/ RMul
    \/ TrueDiv
    \/ Chain
    \/ Drop

SpecDefault == InitDefault /\ [][NextDefault]_vars

(***************************************************************************)
(* Properties.                                                             *)
(***************************************************************************)

IsScalarZero(other) == other.type = "int" /\ other.value = 0
IsScalarNonZero(other) == other.type = "int" /\ other.value # 0

ReturnedNumber(c) == result.kind = "CompleteNumber" /\ result.value = c

\* x == y for floats (-0.0 == 0.0).
float_eq(x, y) == x.mag = y.mag /\ (x.neg = y.neg \/ x.mag = 0)

\* C1: x * 0 returns CompleteNumber(0, 0, x.real, x.imag) for every x: real and
\* imag move into the absorbed fields, whose previous values are overwritten.
C1_MulZeroAbsorbs ==
    (op = "__mul__" /\ IsScalarZero(arg)) =>
        ReturnedNumber([real |-> float(0), imag |-> float(0),
                        u_real |-> self.real, u_imag |-> self.imag])

C1_Witness ==
    /\ op = "__mul__"
    /\ IsScalarZero(arg)
    /\ ~IsZero(self.real)
    /\ ~IsZero(self.u_real)
    /\ self.u_real # self.real
    /\ result.kind = "CompleteNumber"
    /\ result.value.u_real = self.real

\* C2: CompleteNumber(0, 0, r, i) / 0 returns CompleteNumber(r, i, 0, 0) without
\* error, r = i = 0 included; so (x * 0) / 0 has x's real and imag and zero
\* absorbed fields.
C2_Recovery ==
    /\ (op = "__truediv__" /\ IsScalarZero(arg)
            /\ IsZero(self.real) /\ IsZero(self.imag)) =>
           ReturnedNumber([real |-> self.u_real, imag |-> self.u_imag,
                           u_real |-> float(0), u_imag |-> float(0)])
    /\ (op = "__mul__" /\ IsScalarZero(arg) /\ result.kind = "CompleteNumber") =>
           CompleteNumber__truediv__(result.value, int(0)) =
               Returned("CompleteNumber",
                        [real |-> self.real, imag |-> self.imag,
                         u_real |-> float(0), u_imag |-> float(0)])

C2_Witness ==
    /\ op = "__truediv__"
    /\ IsScalarZero(arg)
    /\ IsZero(self.real)
    /\ IsZero(self.imag)
    /\ ~IsZero(self.u_real)
    /\ ~IsZero(self.u_imag)
    /\ result.kind = "CompleteNumber"
    /\ result.value.real = self.u_real

\* C3: x / 0 raises ZeroDivisionError whenever x.real != 0 or x.imag != 0,
\* whatever the absorbed fields are.
C3_NonRecoveryGuard ==
    (op = "__truediv__" /\ IsScalarZero(arg)
         /\ (~IsZero(self.real) \/ ~IsZero(self.imag))) =>
        result = ZeroDivisionError

C3_Witness ==
    /\ op = "__truediv__"
    /\ IsScalarZero(arg)
    /\ IsZero(self.real)
    /\ ~IsZero(self.imag)
    /\ ~IsZero(self.u_real)
    /\ result = ZeroDivisionError

\* C4: for a nonzero scalar s, x * s returns CompleteNumber(x.real * s,
\* x.imag * s, x.u_real, x.u_imag): the absorbed fields pass through unchanged.
C4_MulPassesAbsorbedThrough ==
    (op = "__mul__" /\ IsScalarNonZero(arg)) =>
        ReturnedNumber([real |-> float_mul(self.real, arg.value),
                        imag |-> float_mul(self.imag, arg.value),
                        u_real |-> self.u_real, u_imag |-> self.u_imag])

\* C5: for a nonzero scalar s, (x / s) * s gives back x in all four fields.
C5_ScalingIdentity ==
    (op = "__truediv__" /\ IsScalarNonZero(arg) /\ result.kind = "CompleteNumber") =>
        LET back == CompleteNumber__mul__(result.value, arg)
        IN  /\ back.kind = "CompleteNumber"
            /\ float_eq(back.value.real, self.real)
            /\ float_eq(back.value.imag, self.imag)
            /\ float_eq(back.value.u_real, self.u_real)
            /\ float_eq(back.value.u_imag, self.u_imag)

C7_ComponentTrueDiv ==
    op = "component.__truediv__" =>
        LET v == IF view = "real" THEN self.real ELSE self.imag
        IN  IF arg.value = 0
            THEN result = ZeroDivisionError
            ELSE /\ result.kind = "float"
                 /\ result.value.mag * Abs(arg.value) = v.mag
                 /\ result.value.neg = (v.neg # (arg.value < 0))

C7_Witness ==
    /\ op = "component.__truediv__"
    /\ view = "real"
    /\ arg.value = 0
    /\ IsZero(self.real)
    /\ IsZero(self.imag)
    /\ ~IsZero(self.u_real)
    /\ result = ZeroDivisionError

\* C8: s / view returns s / v when the view's value v is not 0, and raises
\* ZeroDivisionError when it is 0.
C8_ComponentReverseDiv ==
    op = "component.__rtruediv__" =>
        LET v == IF view = "real" THEN self.real ELSE self.imag
        IN  IF IsZero(v)
            THEN result = ZeroDivisionError
            ELSE (Abs(arg.value) % v.mag = 0) =>
                     /\ result.kind = "float"
                     /\ result.value = [neg |-> v.neg # (arg.value < 0),
                                        mag |-> Abs(arg.value) \div v.mag]

\* The terms the rendering is said to have, in order, and their joining: " + "
\* before a term, " - " and the term without its sign before a negative one.
TermsOf(c) ==
    (IF ~IsZero(c.real) \/ (IsZero(c.imag) /\ IsZero(c.u_real) /\ IsZero(c.u_imag))
     THEN <<[value |-> c.real, suffix |-> <<>>]>> ELSE <<>>)
    \o (IF ~IsZero(c.imag) THEN <<[value |-> c.imag, suffix |-> <<"j">>]>> ELSE <<>>)
    \o (IF ~IsZero(c.u_real) THEN <<[value |-> c.u_real, suffix |-> <<"u">>]>> ELSE <<>>)
    \o (IF ~IsZero(c.u_imag) THEN <<[value |-> c.u_imag, suffix |-> <<"u", "j">>]>> ELSE <<>>)

Unsigned(f) == int_str(f.mag) \o <<".", "0">>

RECURSIVE FollowingTerms(_)
FollowingTerms(terms) ==
    IF terms = <<>> THEN <<>>
    ELSE (IF Head(terms).value.neg THEN <<" ", "-", " ">> ELSE <<" ", "+", " ">>)
         \o Unsigned(Head(terms).value) \o Head(terms).suffix
         \o FollowingTerms(Tail(terms))

Rendering(c) ==
    LET terms == TermsOf(c)
    IN  (IF Head(terms).value.neg THEN <<"-">> ELSE <<>>)
        \o Unsigned(Head(terms).value) \o Head(terms).suffix
        \o FollowingTerms(Tail(terms))

AllZero(c) == IsZero(c.real) /\ IsZero(c.imag) /\ IsZero(c.u_real) /\ IsZero(c.u_imag)

RenderingExamples ==
    /\ self = CompleteNumber(float(3), float(4)) =>
           result.value = <<"3", ".", "0", " ", "+", " ", "4", ".", "0", "j">>
    /\ self = CompleteNumber__init__(float(0), float(0), float(3), float(4)) =>
           result.value = <<"3", ".", "0", "u", " ", "+", " ", "4", ".", "0", "u", "j">>

\* C9 as stated: the rendering is the terms [real, imag j, u_real u, u_imag uj]
\* that are present, the real term being present when real != 0 or the three
\* other fields are zero, joined by " + " or, before a negative term, " - ";
\* and a number whose four fields are zero renders as "0.0".
C9_RenderingAllZeroIsPlainZero ==
    op = "__repr__" =>
        /\ result.kind = "str"
        /\ TermsOf(self) # <<>>
        /\ result.value = Rendering(self)
        /\ RenderingExamples
        /\ AllZero(self) => result.value = <<"0", ".", "0">>

\* C9 as amended: as above, but a number whose four fields are zero renders as
\* its real term alone, which is "0.0", or "-0.0" when real is negative zero.
C9_Rendering ==
    op = "__repr__" =>
        /\ result.kind = "str"
        /\ TermsOf(self) # <<>>
        /\ result.value = Rendering(self)
        /\ RenderingExamples
        /\ AllZero(self) =>
               result.value = (IF self.real.neg THEN <<"-", "0", ".", "0">>
                                                ELSE <<"0", ".", "0">>)

C9_Witness ==
    /\ op = "__repr__"
    /\ AllZero(self)
    /\ self.real.neg
    /\ result = Returned("str", <<"-", "0", ".", "0">>)

\* C10: a number constructed with the default absorbed fields and then only
\* multiplied and divided has real = imag = 0 or u_real = u_imag = 0.
Exclusive(c) ==
    \/ IsZero(c.real) /\ IsZero(c.imag)
    \/ IsZero(c.u_real) /\ IsZero(c.u_imag)

C10_Exclusivity ==
    /\ Exclusive(self)
    /\ result.kind = "CompleteNumber" => Exclusive(result.value)

C10_Witness ==
    /\ op = "__truediv__"
    /\ IsScalarNonZero(arg)
    /\ arg.value # 1
    /\ ~IsZero(self.u_real)
    /\ ~IsZero(self.u_imag)
    /\ result.kind = "CompleteNumber"
    /\ ~IsZero(result.value.u_real)

====
